---------------------------- MODULE Spec2Model ----------------------------
(***************************************************************************)
(* A model of the deepl-api client library (src/src/lib.rs) and of its     *)
(* command-line front end (src/src/bin/deepl): the request each public     *)
(* operation of DeepL builds, the classification of the HTTP outcome by    *)
(* DeepL::http_request, the decoding of the response body into the         *)
(* operation's result type, and the runs of main.  The remote service is   *)
(* the environment: it answers as the repository's tests pin it down, or   *)
(* with an arbitrary status and body, or the transport fails.              *)
(*                                                                         *)
(* A Rust String is a sequence of pieces (TLA+ strings); format! is        *)
(* concatenation.  A credential is spelled character by character, so      *)
(* that str::ends_with is computed and not looked up.                      *)
(***************************************************************************)
EXTENDS Integers, Sequences, FiniteSets, TLC

VARIABLES
  api_key,    \* DeepL.api_key, set by DeepL::new and never written again
  pc,         \* "ready": no call in progress; "returned": a call has returned
  store,      \* the remote service: the glossaries that exist, by identifier
  used_ids,   \* the remote service: the identifiers it has handed out
  op,         \* the public operation called last ("new": none yet)
  args,       \* the arguments of that call
  request,    \* the HTTP request that call sent
  response,   \* what came back: a response, or the failure of the transport
  served,     \* how the environment answered: documented, arbitrary, transport
  result,     \* the Result the operation returned to its caller
  decoded,    \* whether that call reached res.json::<T>() of its result type
  hosts,      \* every base URL this client instance has sent a request to
  wire,       \* the requests sent since the call (or the run of the CLI) began
  held,       \* the caller's `glossary`: the one create_glossary returned to it
  main_pc,    \* where main of the CLI is ("library": the caller is not the CLI)
  cmdline,    \* the command line of the run
  env_key,    \* the environment variable DEEPL_API_KEY of the run
  stdin,      \* standard input: what reading it to the end gives
  files,      \* the file system: the content of each file that exists
  input,      \* translate's local `text` in the CLI: the input as read
  source_langs, \* main's local `source_langs`
  stdout,     \* everything written to standard output
  stderr,     \* everything written to standard error
  exit_code   \* the exit code of the process, once it has exited

\* A call, its caller and the remote service.
call_vars ==
  <<pc, store, used_ids, op, args, request, response, served, result, decoded, hosts,
    wire, held>>

\* The client with them.
lib_vars == <<api_key, call_vars>>

\* The process the CLI runs in.
cli_vars ==
  <<main_pc, cmdline, env_key, stdin, files, input, source_langs, stdout, stderr, exit_code>>

vars == <<lib_vars, cli_vars>>

---------------------------------------------------------------------------
(* Rust values *)

None == [some |-> FALSE]

Some(v) == [some |-> TRUE, v |-> v]

Str(s) == <<s>>

\* str::ends_with
EndsWith(s, suffix) ==
  /\ Len(s) >= Len(suffix)
  /\ SubSeq(s, Len(s) - Len(suffix) + 1, Len(s)) = suffix

\* All sequences over S of length at most n.
SeqsUpTo(S, n) == UNION {[1..k -> S] : k \in 0..n}

---------------------------------------------------------------------------
(* JSON bodies.  A value is tagged by its only field. *)

JStr(s) == [str |-> s]

JNum(n) == [num |-> n]

JBool(b) == [bool |-> b]

JNull == [null |-> TRUE]

JArr(a) == [arr |-> a]

JObj(f) == [obj |-> f]

NotJson == [raw |-> "<html>"]

IsStr(j) == DOMAIN j = {"str"}

\* A signed integer where the source has u64: a negative number is read.
IsU64_Signed(j) == DOMAIN j = {"num"}

IsU64(j) == DOMAIN j = {"num"} /\ j.num >= 0

IsBool(j) == DOMAIN j = {"bool"}

IsNull(j) == DOMAIN j = {"null"}

IsArr(j) == DOMAIN j = {"arr"}

IsObj(j) == DOMAIN j = {"obj"}

Has(j, f) == f \in DOMAIN j.obj

\* What chrono's DateTime<Utc> deserializer accepts: an RFC 3339 string.
Rfc3339 == {Str("2021-09-01T10:00:00Z")}

IsDateTime(j) == IsStr(j) /\ j.str \in Rfc3339


---------------------------------------------------------------------------
(* serde's derived deserializers of the response types: a struct reads a   *)
(* JSON object, wants every field that is not an Option, checks each       *)
(* field's type and ignores the fields it does not know.  Each returns     *)
(* Some(value) for Ok and None for Err.                                    *)

DecodeUsageInformation(body) ==
  IF /\ IsObj(body)
     /\ Has(body, "character_limit") /\ IsU64(body.obj.character_limit)
     /\ Has(body, "character_count") /\ IsU64(body.obj.character_count)
  THEN Some([character_limit |-> body.obj.character_limit.num,
             character_count |-> body.obj.character_count.num])
  ELSE None

IsLanguageInformation(j) ==
  /\ IsObj(j)
  /\ Has(j, "language") /\ IsStr(j.obj.language)
  /\ Has(j, "name") /\ IsStr(j.obj.name)

DecodeLanguageList(body) ==
  IF IsArr(body) /\ \A i \in 1..Len(body.arr) : IsLanguageInformation(body.arr[i])
  THEN Some([i \in 1..Len(body.arr) |->
               [language |-> body.arr[i].obj.language.str,
                name |-> body.arr[i].obj.name.str]])
  ELSE None

IsTranslatedText(j) ==
  /\ IsObj(j)
  /\ Has(j, "detected_source_language") /\ IsStr(j.obj.detected_source_language)
  /\ Has(j, "text") /\ IsStr(j.obj.text)

DecodeTranslatedTextList(body) ==
  IF /\ IsObj(body)
     /\ Has(body, "translations") /\ IsArr(body.obj.translations)
     /\ \A i \in 1..Len(body.obj.translations.arr) :
          IsTranslatedText(body.obj.translations.arr[i])
  THEN Some([translations |->
               [i \in 1..Len(body.obj.translations.arr) |->
                  [detected_source_language |->
                     body.obj.translations.arr[i].obj.detected_source_language.str,
                   text |-> body.obj.translations.arr[i].obj.text.str]]])
  ELSE None

IsGlossary(j) ==
  /\ IsObj(j)
  /\ Has(j, "glossary_id") /\ IsStr(j.obj.glossary_id)
  /\ Has(j, "name") /\ IsStr(j.obj.name)
  /\ Has(j, "ready") /\ IsBool(j.obj.ready)
  /\ Has(j, "source_lang") /\ IsStr(j.obj.source_lang)
  /\ Has(j, "target_lang") /\ IsStr(j.obj.target_lang)
  /\ Has(j, "creation_time") /\ IsDateTime(j.obj.creation_time)
  /\ Has(j, "entry_count") /\ IsU64(j.obj.entry_count)

GlossaryOf(j) ==
  [glossary_id |-> j.obj.glossary_id.str,
   name |-> j.obj.name.str,
   ready |-> j.obj.ready.bool,
   source_lang |-> j.obj.source_lang.str,
   target_lang |-> j.obj.target_lang.str,
   creation_time |-> j.obj.creation_time.str,
   entry_count |-> j.obj.entry_count.num]

DecodeGlossary(body) == IF IsGlossary(body) THEN Some(GlossaryOf(body)) ELSE None

DecodeGlossaryListing(body) ==
  IF /\ IsObj(body)
     /\ Has(body, "glossaries") /\ IsArr(body.obj.glossaries)
     /\ \A i \in 1..Len(body.obj.glossaries.arr) : IsGlossary(body.obj.glossaries.arr[i])
  THEN Some([glossaries |->
               [i \in 1..Len(body.obj.glossaries.arr) |->
                  GlossaryOf(body.obj.glossaries.arr[i])]])
  ELSE None

\* ServerErrorMessage { message: String, detail: Option<String> }: an absent
\* or null detail is None.
DecodeServerErrorMessage(body) ==
  IF /\ IsObj(body)
     /\ Has(body, "message") /\ IsStr(body.obj.message)
     /\ Has(body, "detail") => (IsStr(body.obj.detail) \/ IsNull(body.obj.detail))
  THEN Some([message |-> body.obj.message.str,
             detail |-> IF Has(body, "detail") /\ IsStr(body.obj.detail)
                        THEN Some(body.obj.detail.str)
                        ELSE None])
  ELSE None

---------------------------------------------------------------------------
(* The error kinds of error_chain!, and Result values. *)

Ok(v) == [kind |-> "Ok", value |-> v]

AuthorizationError == [kind |-> "AuthorizationError"]

NotFoundError == [kind |-> "NotFoundError"]

ServerError(message) == [kind |-> "ServerError", message |-> message]

DeserializationError == [kind |-> "DeserializationError"]

\* foreign_links: a reqwest::Error, carried as it is.
Transport(e) == [kind |-> "Transport", error |-> e]

\* foreign_links: a std::io::Error, carried as it is.
IO(e) == [kind |-> "IO", error |-> e]

\* unreachable!(): the call does not return.
Panic == [kind |-> "panic"]

---------------------------------------------------------------------------
(* DeepL::http_request *)

FreeSuffix == <<":", "f", "x">>

FreeBaseUrl == "https://api-free.deepl.com/v2"

ProBaseUrl == "https://api.deepl.com/v2"

\* The marker looked for at the start of the credential.
BaseUrl_StartsWith(key) ==
  IF Len(key) >= Len(FreeSuffix) /\ SubSeq(key, 1, Len(FreeSuffix)) = FreeSuffix
  THEN FreeBaseUrl
  ELSE ProBaseUrl

BaseUrl(key) == IF EndsWith(key, FreeSuffix) THEN FreeBaseUrl ELSE ProBaseUrl

AuthorizationHeader(key) == <<"DeepL-Auth-Key ">> \o key

\* The credential sent as an `auth_key` parameter as well.
BuildRequest_AuthKeyParam(key, method, url, params) ==
  LET auth == << <<"auth_key", key>> >>
      all == IF params.some THEN Some(auth \o params.v) ELSE Some(auth)
  IN  [method |-> method,
       url |-> <<BaseUrl(key)>> \o url,
       authorization |-> AuthorizationHeader(key),
       query |-> IF method = "GET" THEN all ELSE None,
       form |-> IF method = "GET" THEN None ELSE all]

\* The request as sent: query parameters for GET, a form body for PATCH, POST
\* and PUT, neither without parameters; Panic where the code is unreachable!().
BuildRequest(key, method, url, params) ==
  LET base == [method |-> method,
               url |-> <<BaseUrl(key)>> \o url,
               authorization |-> AuthorizationHeader(key),
               query |-> None,
               form |-> None]
  IN  IF params.some
      THEN IF method = "GET" THEN [base EXCEPT !.query = params]
           ELSE IF method \in {"PATCH", "POST", "PUT"} THEN [base EXCEPT !.form = params]
           ELSE Panic
      ELSE base

\* A second attempt when the transport failed.
Sends_RetryOnTransport(req, r) == IF "err" \in DOMAIN r THEN <<req, req>> ELSE <<req>>

\* The only glossary deleted again when the call did not succeed.
Sends_CleanUp(req, r) ==
  IF "status" \in DOMAIN r /\ r.status >= 200 /\ r.status < 300
  THEN <<req>>
  ELSE <<req, [req EXCEPT !.method = "DELETE",
                          !.url = <<Head(req.url), "/glossaries/", "g1">>,
                          !.query = None, !.form = None]>>

\* The requests one call of http_request puts on the wire, r being the
\* outcome of send(): send() is called once, in the arm of the match on
\* params that is taken, and no arm of the match on its outcome sends again.
Sends(req, r) == <<req>>

\* Success taken to be 200 alone.
IsSuccess_Only200(status) == status = 200

IsSuccess(status) == status >= 200 /\ status < 300

\* http::StatusCode::canonical_reason, for the statuses the model uses.
CanonicalReason(status) ==
  CASE status = 200 -> "OK"
    [] status = 204 -> "No Content"
    [] status = 304 -> "Not Modified"
    [] status = 400 -> "Bad Request"
    [] status = 401 -> "Unauthorized"
    [] status = 403 -> "Forbidden"
    [] status = 404 -> "Not Found"
    [] status = 503 -> "Service Unavailable"
    [] OTHER -> "<unknown status code>"

\* StatusCode's Display: the code, a space, the canonical reason.
StatusToString(status) == <<ToString(status), " ", CanonicalReason(status)>>

\* The separator left out when there is no detail.
ServerErrorText_NoSeparator(e) ==
  IF e.detail.some THEN e.message \o <<": ">> \o e.detail.v ELSE e.message

\* format!("{}: {}", message, detail.unwrap_or_default())
ServerErrorText(e) == e.message \o <<": ">> \o (IF e.detail.some THEN e.detail.v ELSE <<>>)

IsResponse(r) == "status" \in DOMAIN r

\* The arm for FORBIDDEN left out.
ClassifyResponse_No403(r) ==
  IF IsResponse(r) /\ IsSuccess(r.status) THEN Ok(r)
  ELSE IF IsResponse(r) /\ r.status = 401 THEN AuthorizationError
  ELSE IF IsResponse(r) /\ r.status = 404 THEN NotFoundError
  ELSE IF IsResponse(r)
       THEN LET e == DecodeServerErrorMessage(r.body)
            IN  IF e.some THEN ServerError(ServerErrorText(e.v))
                ELSE ServerError(StatusToString(r.status))
  ELSE Transport(r.err)

\* The match on the outcome of send(): the arms in the order of the source.
ClassifyResponse(r) ==
  IF IsResponse(r) /\ IsSuccess(r.status) THEN Ok(r)
  ELSE IF IsResponse(r) /\ r.status = 401 THEN AuthorizationError
  ELSE IF IsResponse(r) /\ r.status = 403 THEN AuthorizationError
  ELSE IF IsResponse(r) /\ r.status = 404 THEN NotFoundError
  ELSE IF IsResponse(r)
       THEN LET e == DecodeServerErrorMessage(r.body)
            IN  IF e.some THEN ServerError(ServerErrorText(e.v))
                ELSE ServerError(StatusToString(r.status))
  ELSE Transport(r.err)

---------------------------------------------------------------------------
(* The requests of the public operations.  A call is a record: its op and  *)
(* its arguments.                                                          *)

UsageInformationRequest(key) == BuildRequest(key, "POST", Str("/usage"), None)

\* DeepL::languages, called with "source" or "target".
LanguagesRequest(key, language_type) ==
  BuildRequest(key, "POST", Str("/languages"), Some(<< <<"type", Str(language_type)>> >>))

\* The tokens of the two splitting modes exchanged.
SplitSentencesToken_Swapped(v) ==
  CASE v = "None" -> Str("0")
    [] v = "PunctuationAndNewlines" -> Str("nonewlines")
    [] v = "Punctuation" -> Str("1")

SplitSentencesToken(v) ==
  CASE v = "None" -> Str("0")
    [] v = "PunctuationAndNewlines" -> Str("1")
    [] v = "Punctuation" -> Str("nonewlines")

PreserveFormattingToken(b) == IF b = FALSE THEN Str("0") ELSE Str("1")

FormalityToken(v) ==
  CASE v = "Default" -> Str("default")
    [] v = "More" -> Str("more")
    [] v = "Less" -> Str("less")

\* One entry if the Option is Some, none otherwise.
PushIfSome(name, opt) == IF opt.some THEN << <<name, opt.v>> >> ELSE <<>>

\* The blocks pushed last first.
PushTexts_Reversed(texts) == [i \in 1..Len(texts) |-> <<"text", texts[Len(texts) + 1 - i]>>]

\* An empty list sent as one empty block.
PushTexts_PadEmpty(texts) ==
  IF texts = <<>> THEN << <<"text", <<>> >> >>
  ELSE [i \in 1..Len(texts) |-> <<"text", texts[i]>>]

PushTexts(texts) == [i \in 1..Len(texts) |-> <<"text", texts[i]>>]

\* The option entries, in the order the code pushes them.
PushOptions(options) ==
  IF options.some
  THEN LET opt == options.v
       IN  (IF opt.split_sentences.some
            THEN << <<"split_sentences", SplitSentencesToken(opt.split_sentences.v)>> >>
            ELSE <<>>)
           \o (IF opt.preserve_formatting.some
               THEN << <<"preserve_formatting",
                         PreserveFormattingToken(opt.preserve_formatting.v)>> >>
               ELSE <<>>)
           \o (IF opt.formality.some
               THEN << <<"formality", FormalityToken(opt.formality.v)>> >>
               ELSE <<>>)
           \o PushIfSome("glossary_id", opt.glossary_id)
  ELSE <<>>

\* The text blocks pushed before the source language.
TranslateQuery_TextsFirst(options, text_list) ==
  << <<"target_lang", text_list.target_language>> >>
  \o PushTexts(text_list.texts)
  \o PushIfSome("source_lang", text_list.source_language)
  \o PushOptions(options)

\* The vector `query` of DeepL::translate.
TranslateQuery(options, text_list) ==
  << <<"target_lang", text_list.target_language>> >>
  \o PushIfSome("source_lang", text_list.source_language)
  \o PushTexts(text_list.texts)
  \o PushOptions(options)

TranslateRequest(key, options, text_list) ==
  BuildRequest(key, "POST", Str("/translate"), Some(TranslateQuery(options, text_list)))

EntriesFormatToken(f) == IF f = "Tsv" THEN Str("tsv") ELSE Str("csv")

CreateGlossaryRequest(key, name, source_lang, target_lang, entries, entries_format) ==
  BuildRequest(key, "POST", Str("/glossaries"),
               Some(<< <<"name", name>>,
                       <<"source_lang", source_lang>>,
                       <<"target_lang", target_lang>>,
                       <<"entries", entries>>,
                       <<"entries_format", EntriesFormatToken(entries_format)>> >>))

ListGlossariesRequest(key) == BuildRequest(key, "GET", Str("/glossaries"), None)

\* The identifier handed over as a parameter of the DELETE.
DeleteGlossaryRequest_WithParams(key, glossary_id) ==
  BuildRequest(key, "DELETE", Str("/glossaries"), Some(<< <<"glossary_id", glossary_id>> >>))

\* The glossary fetched where it is to be deleted.
DeleteGlossaryRequest_Get(key, glossary_id) ==
  BuildRequest(key, "GET", <<"/glossaries/">> \o glossary_id, None)

DeleteGlossaryRequest(key, glossary_id) ==
  BuildRequest(key, "DELETE", <<"/glossaries/">> \o glossary_id, None)

GetGlossaryRequest(key, glossary_id) ==
  BuildRequest(key, "GET", <<"/glossaries/">> \o glossary_id, None)

RequestOf(key, call) ==
  CASE call.op = "usage_information" -> UsageInformationRequest(key)
    [] call.op = "source_languages" -> LanguagesRequest(key, "source")
    [] call.op = "target_languages" -> LanguagesRequest(key, "target")
    [] call.op = "translate" -> TranslateRequest(key, call.options, call.text_list)
    [] call.op = "create_glossary" ->
         CreateGlossaryRequest(key, call.name, call.source_lang, call.target_lang,
                               call.entries, call.entries_format)
    [] call.op = "list_glossaries" -> ListGlossariesRequest(key)
    [] call.op = "delete_glossary" -> DeleteGlossaryRequest(key, call.glossary_id)
    [] call.op = "get_glossary" -> GetGlossaryRequest(key, call.glossary_id)

---------------------------------------------------------------------------
(* What each operation makes of the outcome of http_request: `?` hands an  *)
(* error on, and an Ok response is decoded into the result type.           *)

\* res.json::<T>() of each decoding operation.
DecodeBody(o, body) ==
  CASE o = "usage_information" -> DecodeUsageInformation(body)
    [] o \in {"source_languages", "target_languages"} -> DecodeLanguageList(body)
    [] o = "translate" -> DecodeTranslatedTextList(body)
    [] o \in {"create_glossary", "get_glossary"} -> DecodeGlossary(body)
    [] o = "list_glossaries" -> DecodeGlossaryListing(body)

\* Ok(content), or Ok(content.translations) for translate.
Returned(o, content) == IF o = "translate" THEN content.translations ELSE content

\* Whether the operation gets as far as res.json::<T>().
ReachesDecode(o, r) == ClassifyResponse(r).kind = "Ok" /\ o # "delete_glossary"

ResultOf(o, r) ==
  LET res == ClassifyResponse(r)
  IN  IF res.kind # "Ok" THEN res
      ELSE IF o = "delete_glossary" THEN res
      ELSE LET content == DecodeBody(o, res.value.body)
           IN  IF content.some THEN Ok(Returned(o, content.v))
               ELSE DeserializationError

---------------------------------------------------------------------------
(* The remote service, as the tests of the repository pin it down.  It is  *)
(* the environment of the client, not code of the repository.              *)

\* The credentials the service knows, per host: those of the free tier end
\* in ":fx" and belong to the free host.
ProAccounts == {<<"a">>}

FreeAccounts == {<<"a", ":", "f", "x">>}

Accounts(base) ==
  IF base = FreeBaseUrl THEN FreeAccounts
  ELSE IF base = ProBaseUrl THEN ProAccounts
  ELSE {}

Authenticated(req) ==
  /\ req.authorization # <<>>
  /\ Head(req.authorization) = "DeepL-Auth-Key "
  /\ Tail(req.authorization) \in Accounts(Head(req.url))

\* The values of the entries called `name`, in the order sent.
Values(params, name) ==
  LET sel == SelectSeq(params, LAMBDA p : p[1] = name)
  IN  [i \in 1..Len(sel) |-> sel[i][2]]

FormValues(req, name) == IF req.form.some THEN Values(req.form.v, name) ELSE <<>>

Reply(status, body) == [status |-> status, body |-> body]

ErrorBody(message) == JObj([message |-> JStr(Str(message))])

UsageBody == JObj([character_limit |-> JNum(250000), character_count |-> JNum(3317)])

LanguageBody(code, name) == JObj([language |-> JStr(Str(code)), name |-> JStr(Str(name))])

SourceLanguagesBody == JArr(<<LanguageBody("DE", "German"), LanguageBody("EN", "English")>>)

TargetLanguagesBody ==
  JArr(<<LanguageBody("DE", "German"), LanguageBody("EN-US", "English (American)")>>)

SupportedTargets == {Str("DE"), Str("EN-US")}

Translation(text) ==
  CASE text = Str("ja") -> Str("yes")
    [] text = Str("nein") -> Str("no")
    [] OTHER -> text

\* One translation per `text` entry, in the order of the entries.
TranslationsBody(texts, source) ==
  JObj([translations |->
          JArr([i \in 1..Len(texts) |->
                  JObj([detected_source_language |->
                          JStr(IF source = <<>> THEN Str("DE") ELSE Head(source)),
                        text |-> JStr(Translation(texts[i]))])])])

\* The identifiers the service hands out, in the order it hands them out.
GlossaryIds == <<Str("g1")>>

IdSet == {GlossaryIds[i] : i \in 1..Len(GlossaryIds)}

FreshId(used) == GlossaryIds[CHOOSE i \in 1..Len(GlossaryIds) :
                               /\ GlossaryIds[i] \notin used
                               /\ \A j \in 1..(i - 1) : GlossaryIds[j] \in used]

\* The entries of a payload: one per line.
EntryCount(entries) == 1 + Len(SelectSeq(entries, LAMBDA c : c = "\n"))

GlossaryBody(id, g) ==
  JObj([glossary_id |-> JStr(id),
        name |-> JStr(g.name),
        ready |-> JBool(TRUE),
        source_lang |-> JStr(g.source_lang),
        target_lang |-> JStr(g.target_lang),
        creation_time |-> JStr(Str("2021-09-01T10:00:00Z")),
        entry_count |-> JNum(g.entry_count)])

ListingBody(st) ==
  LET live == SelectSeq(GlossaryIds, LAMBDA id : id \in DOMAIN st)
  IN  JObj([glossaries |-> JArr([i \in 1..Len(live) |-> GlossaryBody(live[i], st[live[i]])])])

One(v) == IF v = <<>> THEN <<>> ELSE Head(v)

\* The answers the service may give to a request, each with the state it
\* leaves the service in.  Where the tests do not say which of two faults is
\* reported, either may be.
ServiceAnswers(req, st, used) ==
  LET path == Tail(req.url)
      same(resp) == {[response |-> resp, store |-> st, used_ids |-> used]}
      texts == FormValues(req, "text")
      target == FormValues(req, "target_lang")
      id == Tail(path)
  IN  IF ~Authenticated(req) THEN same(Reply(403, NotJson))
      ELSE IF req.method = "POST" /\ path = Str("/usage") THEN same(Reply(200, UsageBody))
      ELSE IF req.method = "POST" /\ path = Str("/languages")
        THEN IF FormValues(req, "type") = <<Str("source")>>
               THEN same(Reply(200, SourceLanguagesBody))
             ELSE IF FormValues(req, "type") = <<Str("target")>>
               THEN same(Reply(200, TargetLanguagesBody))
             ELSE same(Reply(400, ErrorBody("Parameter 'type' is invalid.")))
      ELSE IF req.method = "POST" /\ path = Str("/translate")
        THEN LET no_text == same(Reply(400, ErrorBody("Parameter 'text' not specified.")))
                 bad_target ==
                   same(Reply(400, ErrorBody("Value for 'target_lang' not supported.")))
             IN  IF texts = <<>> /\ One(target) \notin SupportedTargets
                   THEN no_text \cup bad_target
                 ELSE IF texts = <<>> THEN no_text
                 ELSE IF One(target) \notin SupportedTargets THEN bad_target
                 ELSE same(Reply(200, TranslationsBody(texts, FormValues(req, "source_lang"))))
      ELSE IF req.method = "POST" /\ path = Str("/glossaries")
        THEN IF IdSet \subseteq used
               THEN same(Reply(456, ErrorBody("Quota exceeded")))
             ELSE LET new == FreshId(used)
                      g == [name |-> One(FormValues(req, "name")),
                            source_lang |-> One(FormValues(req, "source_lang")),
                            target_lang |-> One(FormValues(req, "target_lang")),
                            entry_count |-> EntryCount(One(FormValues(req, "entries")))]
                  IN  {[response |-> Reply(201, GlossaryBody(new, g)),
                        store |-> [i \in DOMAIN st \cup {new} |-> IF i = new THEN g ELSE st[i]],
                        used_ids |-> used \cup {new}]}
      ELSE IF req.method = "GET" /\ path = Str("/glossaries")
        THEN same(Reply(200, ListingBody(st)))
      ELSE IF path # <<>> /\ Head(path) = "/glossaries/" /\ id \in DOMAIN st
        THEN IF req.method = "GET" THEN same(Reply(200, GlossaryBody(id, st[id])))
             ELSE IF req.method = "DELETE"
               THEN {[response |-> Reply(204, NotJson),
                      store |-> [i \in DOMAIN st \ {id} |-> st[i]],
                      used_ids |-> used]}
             ELSE same(Reply(404, NotJson))
      ELSE same(Reply(404, NotJson))

---------------------------------------------------------------------------
(* The environment at large: besides the service's own answers, the        *)
(* transport may fail (before the service saw the request, or on the way   *)
(* back), and anything between the client and the service may answer with  *)
(* any status and any body.                                                *)

Statuses == {200, 204, 304, 400, 401, 403, 404, 456, 503}

ErrFull == JObj([message |-> JStr(Str("Quota exceeded")), detail |-> JStr(Str("limit reached"))])

ErrNoDetail == JObj([message |-> JStr(Str("Bad request"))])

ErrNullDetail == JObj([message |-> JStr(Str("Bad request")), detail |-> JNull])

ErrEmptyDetail == JObj([message |-> JStr(Str("Bad request")), detail |-> JStr(<<>>)])

ErrNumDetail == JObj([message |-> JStr(Str("Bad request")), detail |-> JNum(5)])

ErrNoMessage == JObj([detail |-> JStr(Str("limit reached"))])

ErrNumMessage == JObj([message |-> JNum(5), detail |-> JStr(Str("limit reached"))])

UsageWithMessage ==
  JObj([character_limit |-> JNum(10), character_count |-> JNum(0),
        message |-> JStr(Str("ok"))])

UsageMissingCount == JObj([character_limit |-> JNum(10)])

UsageNegative == JObj([character_limit |-> JNum(10), character_count |-> JNum(-1)])

UsageTextCount == JObj([character_limit |-> JNum(10), character_count |-> JStr(Str("0"))])

EmptyArray == JArr(<<>>)

LanguagesMissingName == JArr(<<LanguageBody("DE", "German"), JObj([language |-> JStr(Str("EN"))])>>)

OneTranslation == TranslationsBody(<<Str("ja")>>, <<>>)

TranslationsNotArray == JObj([translations |-> JStr(Str("yes"))])

TranslationsMissingText ==
  JObj([translations |-> JArr(<<JObj([detected_source_language |-> JStr(Str("DE"))])>>)])

SampleGlossary ==
  [name |-> Str("test_glossary"), source_lang |-> Str("en"), target_lang |-> Str("de"),
   entry_count |-> 1]

GlossaryOk == GlossaryBody(Str("g1"), SampleGlossary)

GlossaryBadTime ==
  JObj([x \in DOMAIN GlossaryOk.obj |->
          IF x = "creation_time" THEN JStr(Str("yesterday")) ELSE GlossaryOk.obj[x]])

GlossaryNoReady == JObj([x \in DOMAIN GlossaryOk.obj \ {"ready"} |-> GlossaryOk.obj[x]])

ListingOk == JObj([glossaries |-> JArr(<<GlossaryOk>>)])

ListingEmpty == JObj([glossaries |-> EmptyArray])

ListingBadEntry == JObj([glossaries |-> JArr(<<GlossaryOk, GlossaryBadTime>>)])

AnyBodies ==
  {NotJson, ErrFull, ErrNoDetail, ErrNullDetail, ErrEmptyDetail, ErrNumDetail,
   ErrNoMessage, ErrNumMessage,
   UsageBody, UsageWithMessage, UsageMissingCount, UsageNegative, UsageTextCount,
   EmptyArray, SourceLanguagesBody, LanguagesMissingName,
   OneTranslation, TranslationsNotArray, TranslationsMissingText,
   GlossaryOk, GlossaryBadTime, GlossaryNoReady,
   ListingOk, ListingEmpty, ListingBadEntry}

TwoTranslations == TranslationsBody(<<Str("ja"), Str("nein")>>, <<>>)

NoTranslations == JObj([translations |-> EmptyArray])

\* A few of the answers that are not the service's own.
SomeReplies ==
  {Reply(200, TwoTranslations), Reply(200, NoTranslations), Reply(200, NotJson),
   Reply(404, NotJson), Reply(503, ErrFull)}

ConnectFailed == [err |-> "connect"]

ResponseLost == [err |-> "response lost"]

\* What may happen to a request: env "service" is the service answering or
\* the transport failing, env "anything" adds every status with every body,
\* env "some" adds SomeReplies.
Outcomes(env, req, st, used) ==
  LET answers == ServiceAnswers(req, st, used)
  IN  {[response |-> a.response, store |-> a.store, used_ids |-> a.used_ids,
        served |-> "documented"] : a \in answers}
      \cup {[response |-> ConnectFailed, store |-> st, used_ids |-> used,
             served |-> "transport"]}
      \cup {[response |-> ResponseLost, store |-> a.store, used_ids |-> a.used_ids,
             served |-> "transport"] : a \in answers}
      \cup (IF env = "anything"
            THEN {[response |-> Reply(status, body), store |-> st, used_ids |-> used,
                   served |-> "arbitrary"] : status \in Statuses, body \in AnyBodies}
            ELSE {})
      \cup (IF env = "some"
            THEN {[response |-> r, store |-> st, used_ids |-> used,
                   served |-> "arbitrary"] : r \in SomeReplies}
            ELSE {})

\* The service after the requests reqs have reached it, one after the
\* other: whatever is put on the wire is served.
RECURSIVE Delivered(_, _, _)
Delivered(reqs, st, used) ==
  IF reqs = <<>> THEN [store |-> st, used_ids |-> used]
  ELSE LET a == CHOOSE x \in ServiceAnswers(Head(reqs), st, used) : TRUE
       IN  Delivered(Tail(reqs), a.store, a.used_ids)

---------------------------------------------------------------------------
(* The inputs *)

MaxTexts == 2

Keys == ProAccounts \cup FreeAccounts
        \cup {<<>>, <<"w">>, <<"w", ":", "f", "x">>, <<":", "f", "x", "a">>}

Texts == {Str("ja"), Str("nein")}

TextLists ==
  [source_language : {None, Some(Str("DE"))},
   target_language : {Str("EN-US"), Str("NONEXISTING")},
   texts : SeqsUpTo(Texts, MaxTexts)]

OptionsSet ==
  {None} \cup
  {Some(o) : o \in [split_sentences :
                      {None, Some("None"), Some("Punctuation"), Some("PunctuationAndNewlines")},
                    preserve_formatting : {None, Some(FALSE), Some(TRUE)},
                    formality : {None, Some("Default"), Some("More"), Some("Less")},
                    glossary_id : {None, Some(Str("g1"))}]}

EntriesSet == {<<"Action", ",", "Handlung">>, <<"Yes", ",", "Ja", "\n", "No", ",", "Nein">>}

EntriesFormats == {"Tsv", "Csv"}

IdArgs == IdSet \cup {Str("unknown")}

---------------------------------------------------------------------------
(* The state after DeepL::new, and one action per public operation: the    *)
(* whole call, from building the request to the Result it returns.         *)

EmptyStore == [i \in {} |-> None]

\* A caller of the library keeps the Glossary that create_glossary returned
\* to it, as tests::glossaries does, and knows what became of it: "yes" it
\* exists, "no" delete_glossary succeeded for it, "unknown" a delete_glossary
\* for it did not succeed.
Holds(h, call, res) ==
  IF call.op = "create_glossary" /\ res.kind = "Ok"
    THEN [some |-> TRUE, v |-> res.value, live |-> "yes"]
  ELSE IF call.op = "delete_glossary" /\ h.some /\ call.glossary_id = h.v.glossary_id
    THEN IF res.kind = "Ok" THEN [h EXCEPT !.live = "no"]
         ELSE IF h.live = "yes" THEN [h EXCEPT !.live = "unknown"]
         ELSE h
  ELSE h

\* No run of the CLI: the caller of the library is another program.
NoProcess ==
  /\ main_pc = "library"
  /\ cmdline = None
  /\ env_key = None
  /\ stdin = None
  /\ files = EmptyStore
  /\ input = <<>>
  /\ source_langs = <<>>
  /\ stdout = <<>>
  /\ stderr = <<>>
  /\ exit_code = None

Init ==
  /\ api_key \in Keys
  /\ pc = "ready"
  /\ store = EmptyStore
  /\ used_ids = {}
  /\ op = "new"
  /\ args = [op |-> "new"]
  /\ request = None
  /\ response = None
  /\ served = "none"
  /\ result = None
  /\ decoded = FALSE
  /\ hosts = {}
  /\ wire = <<>>
  /\ held = None
  /\ NoProcess

Exchange(call, env) ==
  LET req == RequestOf(api_key, call)
  IN  /\ pc' = "returned"
      /\ op' = call.op
      /\ args' = call
      /\ request' = req
      /\ UNCHANGED api_key
      /\ IF req = Panic
         THEN /\ result' = Panic
              /\ response' = None
              /\ served' = "none"
              /\ decoded' = FALSE
              /\ UNCHANGED <<store, used_ids, hosts, wire, held>>
         ELSE \E o \in Outcomes(env, req, store, used_ids) :
                /\ response' = o.response
                /\ served' = o.served
                /\ store' = Delivered(Tail(Sends(req, o.response)), o.store, o.used_ids).store
                /\ used_ids' =
                     Delivered(Tail(Sends(req, o.response)), o.store, o.used_ids).used_ids
                /\ result' = ResultOf(call.op, o.response)
                /\ decoded' = ReachesDecode(call.op, o.response)
                /\ hosts' = hosts \cup {Head(req.url)}
                /\ wire' = wire \o Sends(req, o.response)
                /\ held' = Holds(held, call, ResultOf(call.op, o.response))

usage_information(env) ==
  /\ pc = "ready"
  /\ Exchange([op |-> "usage_information"], env)
  /\ UNCHANGED cli_vars

source_languages(env) ==
  /\ pc = "ready"
  /\ Exchange([op |-> "source_languages"], env)
  /\ UNCHANGED cli_vars

target_languages(env) ==
  /\ pc = "ready"
  /\ Exchange([op |-> "target_languages"], env)
  /\ UNCHANGED cli_vars

translate(Options, env) ==
  /\ pc = "ready"
  /\ \E options \in Options, text_list \in TextLists :
       Exchange([op |-> "translate", options |-> options, text_list |-> text_list], env)
  /\ UNCHANGED cli_vars

create_glossary(Entries, env) ==
  /\ pc = "ready"
  /\ \E entries \in Entries, entries_format \in EntriesFormats :
       Exchange([op |-> "create_glossary", name |-> Str("test_glossary"),
                 source_lang |-> Str("en"), target_lang |-> Str("de"),
                 entries |-> entries, entries_format |-> entries_format], env)
  /\ UNCHANGED cli_vars

list_glossaries(env) ==
  /\ pc = "ready"
  /\ Exchange([op |-> "list_glossaries"], env)
  /\ UNCHANGED cli_vars

delete_glossary(env) ==
  /\ pc = "ready"
  /\ \E glossary_id \in IdArgs :
       Exchange([op |-> "delete_glossary", glossary_id |-> glossary_id], env)
  /\ UNCHANGED cli_vars

get_glossary(env) ==
  /\ pc = "ready"
  /\ \E glossary_id \in IdArgs :
       Exchange([op |-> "get_glossary", glossary_id |-> glossary_id], env)
  /\ UNCHANGED cli_vars

\* The caller takes the Result and the locals of the call are dropped: the
\* client instance is left with its credential alone.
DropResult ==
  /\ pc = "returned"
  /\ pc' = "ready"
  /\ op' = "new"
  /\ args' = [op |-> "new"]
  /\ request' = None
  /\ response' = None
  /\ served' = "none"
  /\ result' = None
  /\ decoded' = FALSE
  /\ wire' = <<>>
  /\ UNCHANGED <<api_key, store, used_ids, hosts, held>>
  /\ UNCHANGED cli_vars

\* The client against the service: every input, the service's own answers
\* and the failures of the transport.
Next ==
  \/ usage_information("service")
  \/ source_languages("service")
  \/ target_languages("service")
  \/ translate(OptionsSet, "service")
  \/ create_glossary(EntriesSet, "service")
  \/ list_glossaries("service")
  \/ delete_glossary("service")
  \/ get_glossary("service")
  \/ DropResult

Spec == Init /\ [][Next]_vars

\* The client against anything that may answer: every status with every
\* body, for each operation.
NextAnyResponse ==
  \/ usage_information("anything")
  \/ source_languages("anything")
  \/ target_languages("anything")
  \/ translate({None}, "anything")
  \/ create_glossary({<<"Action", ",", "Handlung">>}, "anything")
  \/ list_glossaries("anything")
  \/ delete_glossary("anything")
  \/ get_glossary("anything")
  \/ DropResult

SpecAnyResponse == Init /\ [][NextAnyResponse]_vars

---------------------------------------------------------------------------
(* Properties of the classification of a completed exchange, checked under *)
(* SpecAnyResponse.                                                        *)

Completed == pc = "returned" /\ IsResponse(response)

DecodingOps ==
  {"usage_information", "source_languages", "target_languages", "translate",
   "create_glossary", "list_glossaries", "get_glossary"}

\* C1: the outcome of a completed HTTP exchange is decided by the status
\* alone, whatever the operation and the body: a 2xx status hands the
\* response on (to decoding, or to the caller of delete_glossary), 401 and
\* 403 give AuthorizationError, 404 gives NotFoundError, every other status
\* gives ServerError; and no status outside 2xx reaches the decoding of the
\* result type.
C1_StatusDecidesOutcome ==
  Completed =>
    LET status == response.status
    IN  /\ (status >= 200 /\ status <= 299) =>
             /\ result.kind \in {"Ok", "DeserializationError"}
             /\ decoded = (op \in DecodingOps)
             /\ op = "delete_glossary" => result = Ok(response)
        /\ status \in {401, 403} => result = AuthorizationError
        /\ status = 404 => result = NotFoundError
        /\ (status < 200 \/ status > 299) /\ status \notin {401, 403, 404} =>
             result.kind = "ServerError"
        /\ (status < 200 \/ status > 299) => ~decoded

\* A 204 with a usage body: handed on to decoding, and decoded.
C1_Witness ==
  /\ Completed /\ op = "usage_information"
  /\ response = Reply(204, UsageBody) /\ decoded /\ result.kind = "Ok"

\* The text the claim gives for a body: `message: detail` if it is an object
\* with a string `message` and a detail that is a string, null or absent.
C2_ParsesAsError(body) ==
  /\ IsObj(body)
  /\ "message" \in DOMAIN body.obj
  /\ IsStr(body.obj.message)
  /\ \/ "detail" \notin DOMAIN body.obj
     \/ IsNull(body.obj.detail)
     \/ IsStr(body.obj.detail)

C2_Detail(body) ==
  IF "detail" \in DOMAIN body.obj /\ IsStr(body.obj.detail) THEN body.obj.detail.str ELSE <<>>

\* C2: for a status outside 2xx other than 401, 403 and 404 the ServerError
\* message is `message: detail` from the JSON error body when the body parses
\* as one, with an empty detail when there is none, and the status text
\* otherwise.
C2_ServerErrorMessage ==
  (Completed /\ (response.status < 200 \/ response.status > 299)
             /\ response.status \notin {401, 403, 404}) =>
    /\ result.kind = "ServerError"
    /\ IF C2_ParsesAsError(response.body)
       THEN result.message =
              response.body.obj.message.str \o <<": ">> \o C2_Detail(response.body)
       ELSE result.message =
              <<ToString(response.status), " ", CanonicalReason(response.status)>>
    /\ response.body = ErrNoDetail => result.message = <<"Bad request", ": ">>
    /\ response.body = ErrFull => result.message = <<"Quota exceeded", ": ", "limit reached">>

\* A 400 whose body has a message and no detail.
C2_Witness ==
  /\ Completed
  /\ response = Reply(400, ErrNoDetail)
  /\ result = ServerError(<<"Bad request", ": ">>)

\* The bodies of AnyBodies that have the shape of each operation's result.
C3_WellShaped(o) ==
  CASE o = "usage_information" -> {UsageBody, UsageWithMessage}
    [] o \in {"source_languages", "target_languages"} -> {EmptyArray, SourceLanguagesBody}
    [] o = "translate" -> {OneTranslation}
    [] o \in {"create_glossary", "get_glossary"} -> {GlossaryOk}
    [] o = "list_glossaries" -> {ListingOk, ListingEmpty}

C3_SampleGlossary ==
  [glossary_id |-> Str("g1"), name |-> Str("test_glossary"), ready |-> TRUE,
   source_lang |-> Str("en"), target_lang |-> Str("de"),
   creation_time |-> Str("2021-09-01T10:00:00Z"), entry_count |-> 1]

\* The value each of those bodies decodes to.
C3_Value(body) ==
  CASE body = UsageBody -> [character_limit |-> 250000, character_count |-> 3317]
    [] body = UsageWithMessage -> [character_limit |-> 10, character_count |-> 0]
    [] body = EmptyArray -> <<>>
    [] body = SourceLanguagesBody ->
         <<[language |-> Str("DE"), name |-> Str("German")],
           [language |-> Str("EN"), name |-> Str("English")]>>
    [] body = OneTranslation ->
         <<[detected_source_language |-> Str("DE"), text |-> Str("yes")]>>
    [] body = GlossaryOk -> C3_SampleGlossary
    [] body = ListingOk -> [glossaries |-> <<C3_SampleGlossary>>]
    [] body = ListingEmpty -> [glossaries |-> <<>>]

\* C3: a decoding operation returns DeserializationError exactly when the
\* exchange completed with a 2xx status and the body has not the shape of
\* the operation's result; with a 2xx status and a body of that shape it
\* returns the decoded value.
C3_DeserializationError ==
  (pc = "returned" /\ op \in DecodingOps) =>
    /\ result = DeserializationError => (IsResponse(response) /\ IsSuccess(response.status))
    /\ (Completed /\ IsSuccess(response.status) /\ served = "arbitrary") =>
         IF response.body \in C3_WellShaped(op)
         THEN result = Ok(C3_Value(response.body))
         ELSE result = DeserializationError
    /\ (Completed /\ IsSuccess(response.status) /\ served = "documented") =>
         result.kind = "Ok"

\* A 200 whose usage body has a negative count.
C3_Witness ==
  /\ Completed /\ op = "usage_information" /\ served = "arbitrary"
  /\ response = Reply(200, UsageNegative)
  /\ result = DeserializationError

---------------------------------------------------------------------------
(* Properties of the client against the service, checked under Spec.       *)

ValidKeys == ProAccounts \cup FreeAccounts

Translating == pc = "returned" /\ op = "translate"

C5_Rank(name) ==
  CASE name = "target_lang" -> 1
    [] name = "source_lang" -> 2
    [] name = "text" -> 3
    [] name = "split_sentences" -> 4
    [] name = "preserve_formatting" -> 5
    [] name = "formality" -> 6
    [] name = "glossary_id" -> 7
    [] OTHER -> 0

C5_Supplied(field) == args.options.some /\ args.options.v[field].some

C5_NoOptions ==
  Some([split_sentences |-> None, preserve_formatting |-> None, formality |-> None,
        glossary_id |-> None])

\* C5: the parameters translate sends are, in this order, target_lang
\* (always, once), source_lang (once if supplied), one text entry per block
\* in the order of the blocks, then split_sentences, preserve_formatting,
\* formality and glossary_id, each once if supplied and not at all
\* otherwise; options whose fields are all absent send what absent options
\* send.
C5_TranslateParameters ==
  Translating =>
    /\ request.method = "POST"
    /\ request.query = None
    /\ request.form.some
    /\ LET q == request.form.v
           tl == args.text_list
       IN  /\ \A i \in 1..Len(q) : C5_Rank(q[i][1]) > 0
           /\ \A i \in 1..Len(q) : \A j \in i..Len(q) : C5_Rank(q[i][1]) <= C5_Rank(q[j][1])
           /\ q[1] = <<"target_lang", tl.target_language>>
           /\ Values(q, "target_lang") = <<tl.target_language>>
           /\ Values(q, "source_lang") =
                (IF tl.source_language.some THEN <<tl.source_language.v>> ELSE <<>>)
           /\ Values(q, "text") = tl.texts
           /\ \A f \in {"split_sentences", "preserve_formatting", "formality", "glossary_id"} :
                Len(Values(q, f)) = (IF C5_Supplied(f) THEN 1 ELSE 0)
    /\ args.options = C5_NoOptions => request = TranslateRequest(api_key, None, args.text_list)

\* A call with a source language, two blocks and all four options.
C5_Witness ==
  /\ Translating
  /\ args.text_list.source_language.some
  /\ args.text_list.texts = <<Str("nein"), Str("ja")>>
  /\ \A f \in {"split_sentences", "preserve_formatting", "formality", "glossary_id"} :
       C5_Supplied(f)
  /\ Len(request.form.v) = 8

C7_OneResultPerBlock ==
  /\ (Translating /\ served = "documented" /\ api_key \in ValidKeys
        /\ args.text_list.texts # <<>>
        /\ args.text_list.target_language \in SupportedTargets) =>
       /\ result.kind = "Ok"
       /\ Len(result.value) = Len(args.text_list.texts)
       /\ \A i \in 1..Len(args.text_list.texts) :
            result.value[i].text = Translation(args.text_list.texts[i])
  /\ (Translating /\ served = "documented" /\ result.kind = "Ok") =>
       Len(result.value) = Len(args.text_list.texts)

\* Two different blocks, translated in the order sent.
C7_Witness ==
  /\ Translating /\ served = "documented"
  /\ args.text_list.texts = <<Str("nein"), Str("ja")>>
  /\ result.kind = "Ok"
  /\ result.value[1].text = Str("no")
  /\ result.value[2].text = Str("yes")

C9_EndsInFx(key) ==
  /\ Len(key) >= 3
  /\ key[Len(key) - 2] = ":"
  /\ key[Len(key) - 1] = "f"
  /\ key[Len(key)] = "x"

\* C9: every request goes to the free-tier base URL if the credential ends
\* in ":fx" and to the standard base URL otherwise, whatever the operation:
\* a client instance never sends to more than one of the two.
C9_OneHost ==
  /\ hosts \subseteq {"https://api-free.deepl.com/v2", "https://api.deepl.com/v2"}
  /\ Cardinality(hosts) <= 1
  /\ pc = "returned" =>
       /\ Head(request.url) \in hosts
       /\ Head(request.url) = (IF C9_EndsInFx(api_key)
                               THEN "https://api-free.deepl.com/v2"
                               ELSE "https://api.deepl.com/v2")

\* A credential with the marker at its start, not at its end: the standard
\* host.
C9_Witness ==
  /\ pc = "returned" /\ op = "list_glossaries"
  /\ api_key = <<":", "f", "x", "a">>
  /\ hosts = {"https://api.deepl.com/v2"}

C10_Parameters(req) ==
  (IF req.query.some THEN req.query.v ELSE <<>>) \o (IF req.form.some THEN req.form.v ELSE <<>>)

\* C10: every request carries the credential in the Authorization header as
\* "DeepL-Auth-Key " followed by the credential, and no query or form
\* parameter is called auth_key or has the credential as its value.
C10_CredentialInHeader ==
  pc = "returned" =>
    /\ request.authorization = <<"DeepL-Auth-Key ">> \o api_key
    /\ \A i \in 1..Len(C10_Parameters(request)) :
         /\ C10_Parameters(request)[i][1] # "auth_key"
         /\ C10_Parameters(request)[i][2] # api_key

\* A request with form parameters.
C10_Witness ==
  /\ pc = "returned" /\ op = "create_glossary"
  /\ request.form.some /\ Len(request.form.v) = 5
  /\ request.authorization = <<"DeepL-Auth-Key ", "a", ":", "f", "x">>

---------------------------------------------------------------------------
(* Properties of what a call puts on the wire, checked under               *)
(* SpecAnyResponse.                                                        *)

\* C11: every call of an operation sends exactly one request, the one it
\* built, whatever the outcome; when the transport fails the call returns
\* the transport's error as it is, and nothing but a failure of the
\* transport is returned as a transport error.
C11_OneRequestPerCall ==
  pc = "returned" =>
    /\ Len(wire) = 1
    /\ wire[1] = request
    /\ served = "transport" => result = [kind |-> "Transport", error |-> response.err]
    /\ result.kind = "Transport" => ~IsResponse(response)
    /\ served # "transport" => IsResponse(response)

\* create_glossary whose response was lost on the way back: the service has
\* the glossary, the caller has the transport's error, and one request went out.
C11_Witness ==
  /\ pc = "returned" /\ op = "create_glossary"
  /\ response = ResponseLost
  /\ result = [kind |-> "Transport", error |-> "response lost"]
  /\ Len(wire) = 1
  /\ store # EmptyStore

---------------------------------------------------------------------------
(* Properties of calls in sequence, checked under Spec.                    *)

\* A call the service answered, about the glossary the caller holds.
C12_AboutHeld(o) ==
  /\ pc = "returned" /\ op = o /\ served = "documented"
  /\ held.some
  /\ o \in {"get_glossary", "delete_glossary"} => args.glossary_id = held.v.glossary_id

\* C12: when create_glossary succeeds, the glossary it returns has the name
\* and the language pair asked for and counts the entries of the payload (1
\* for one entry); from then on, until a delete_glossary for its identifier
\* is called, get_glossary with that identifier returns this same glossary
\* and list_glossaries has it among its glossaries; and once delete_glossary
\* has succeeded for the identifier, get_glossary with it fails with
\* NotFoundError.
C12_GlossaryLifecycle ==
  /\ (pc = "returned" /\ op = "create_glossary" /\ result.kind = "Ok") =>
       /\ result.value.name = args.name
       /\ result.value.source_lang = args.source_lang
       /\ result.value.target_lang = args.target_lang
       /\ args.entries = <<"Action", ",", "Handlung">> => result.value.entry_count = 1
       /\ args.entries = <<"Yes", ",", "Ja", "\n", "No", ",", "Nein">> =>
            result.value.entry_count = 2
       /\ held = [some |-> TRUE, v |-> result.value, live |-> "yes"]
  /\ (C12_AboutHeld("get_glossary") /\ held.live = "yes") =>
       /\ result = Ok(held.v)
       /\ result.value.name = <<"test_glossary">>
       /\ result.value.source_lang = <<"en">>
       /\ result.value.target_lang = <<"de">>
  /\ (C12_AboutHeld("list_glossaries") /\ held.live = "yes") =>
       /\ result.kind = "Ok"
       /\ \E i \in 1..Len(result.value.glossaries) : result.value.glossaries[i] = held.v
  /\ (C12_AboutHeld("delete_glossary") /\ held.live = "no") =>
       result.kind \in {"Ok", "NotFoundError"}
  /\ (C12_AboutHeld("get_glossary") /\ held.live = "no") => result = NotFoundError
  /\ (C12_AboutHeld("list_glossaries") /\ held.live = "no") =>
       /\ result.kind = "Ok"
       /\ \A i \in 1..Len(result.value.glossaries) : result.value.glossaries[i] # held.v

\* The end of tests::glossaries: created with one entry, deleted, fetched.
C12_Witness ==
  /\ C12_AboutHeld("get_glossary")
  /\ held.live = "no"
  /\ held.v.entry_count = 1
  /\ result = NotFoundError

---------------------------------------------------------------------------
(* The command-line front end (src/src/bin/deepl): main and the three      *)
(* subcommands.  A run is a process with a command line, an environment,   *)
(* standard input, a file system, two output streams and an exit code.     *)
(* Standard output and standard error are Strings: everything written to   *)
(* them, in order; both accept every write.  The struct literal of         *)
(* translate names three of the four fields of TranslationOptions; the     *)
(* fourth, glossary_id, for which the CLI has no flag, is None.            *)

\* A path is the sequence of its components; the directories that exist.
Dirs == {<<>>}

InputPath == <<"input.txt">>

OutputPath == <<"output.txt">>

MissingPath == <<"nonexisting/", "file/", "path">>

NoSuchFile == "No such file or directory (os error 2)"

InvalidUtf8 == "stream did not contain valid UTF-8"

\* std::fs::read_to_string
ReadToString(fs, path) == IF path \in DOMAIN fs THEN Ok(fs[path]) ELSE IO(NoSuchFile)

\* std::fs::write: creates or truncates the file; its directory must exist.
CanWrite(path) == path # <<>> /\ SubSeq(path, 1, Len(path) - 1) \in Dirs

Written(fs, path, content) ==
  [p \in DOMAIN fs \cup {path} |-> IF p = path THEN content ELSE fs[p]]

\* The command line as clap's derived parser takes it apart: Some(opts), or
\* None where clap reports the error itself and exits.
ParseArguments(cl) ==
  IF cl.subcmd = "usage-information" THEN Some([subcmd |-> "UsageInformation"])
  ELSE IF cl.subcmd = "languages" THEN Some([subcmd |-> "Languages"])
  ELSE IF cl.subcmd = "translate" /\ cl.target_language.some
    THEN Some([subcmd |-> "Translate",
               t |-> [source_language |-> cl.source_language,
                      target_language |-> cl.target_language.v,
                      input_file |-> cl.input_file,
                      output_file |-> cl.output_file,
                      preserve_formatting |-> cl.preserve_formatting,
                      formality_more |-> cl.formality_more,
                      formality_less |-> cl.formality_less]])
  ELSE None

\* What clap writes to standard error before it exits with code 2.
ClapError(cl) ==
  IF cl.subcmd = "translate"
  THEN <<"error: The following required arguments were not provided:", "\n",
         "    --target-language <TARGET_LANGUAGE>", "\n">>
  ELSE <<"deepl ", "\n", "USAGE:", "\n", "    deepl <SUBCOMMAND>", "\n">>

\* An empty value taken for a credential.
ReadKey_AcceptsEmpty(env) == IF env.some THEN Some(env.v) ELSE None

\* The match on std::env::var("DEEPL_API_KEY"): the value if there is one
\* and it is not empty.
ReadKey(env) == IF env.some /\ Len(env.v) > 0 THEN Some(env.v) ELSE None

MissingKeyMessage ==
  <<"Error: ",
    "no DEEPL_API_KEY found. Please provide your API key in this environment variable.",
    "\n">>

\* Display of the error kinds of error_chain!.
ErrorDisplay(e) ==
  CASE e.kind = "AuthorizationError" -> <<"Authorization failed, is your API key correct?">>
    [] e.kind = "ServerError" ->
         <<"An error occurred while communicating with the DeepL server: '">>
         \o e.message \o <<"'.">>
    [] e.kind = "DeserializationError" ->
         <<"An error occurred while deserializing the response data.">>
    [] e.kind = "NotFoundError" -> <<"The requested resource was not found.">>
    [] e.kind \in {"IO", "Transport"} -> <<e.error>>

\* The error printed, and main left at its end: no std::process::exit(1).
ErrorExit_FallsOffMain(e) ==
  [code |-> 0, stdout |-> <<>>, stderr |-> <<"Error: ">> \o ErrorDisplay(e) \o <<"\n">>]

\* The error printed with println!.
ErrorExit_ToStdout(e) ==
  [code |-> 1, stdout |-> <<"Error: ">> \o ErrorDisplay(e) \o <<"\n">>, stderr |-> <<>>]

\* main's `if let Err(e) = result`: what the process writes and how it ends.
ErrorExit(e) ==
  [code |-> 1, stdout |-> <<>>, stderr |-> <<"Error: ">> \o ErrorDisplay(e) \o <<"\n">>]

\* The two formality flags looked at in the other order.
CliTranslationOptions_LessLast(t) ==
  LET o0 == [split_sentences |-> None, preserve_formatting |-> None, formality |-> None,
             glossary_id |-> None]
      o1 == IF t.preserve_formatting THEN [o0 EXCEPT !.preserve_formatting = Some(TRUE)] ELSE o0
      o2 == IF t.formality_more THEN [o1 EXCEPT !.formality = Some("More")] ELSE o1
      o3 == IF t.formality_less THEN [o2 EXCEPT !.formality = Some("Less")] ELSE o2
  IN  o3

\* The options translate of the CLI builds from the flags.
CliTranslationOptions(t) ==
  LET o0 == [split_sentences |-> None, preserve_formatting |-> None, formality |-> None,
             glossary_id |-> None]
      o1 == IF t.preserve_formatting THEN [o0 EXCEPT !.preserve_formatting = Some(TRUE)] ELSE o0
      o2 == IF t.formality_less THEN [o1 EXCEPT !.formality = Some("Less")] ELSE o1
      o3 == IF t.formality_more THEN [o2 EXCEPT !.formality = Some("More")] ELSE o2
  IN  o3

\* The input of translate: the file if --input-file is given, standard input
\* otherwise, read to its end.
ReadInput(t, in, fs) == IF t.input_file.some THEN ReadToString(fs, t.input_file.v) ELSE in

\* One block per line of the input.
CliTexts_Lines(t, txt) ==
  LET lines == SelectSeq(txt, LAMBDA c : c # "\n")
  IN  [source_language |-> t.source_language,
       target_language |-> t.target_language,
       texts |-> [i \in 1..Len(lines) |-> <<lines[i]>>]]

\* vec![text]
CliTexts(t, txt) ==
  [source_language |-> t.source_language,
   target_language |-> t.target_language,
   texts |-> <<txt>>]

\* The loop over translations: output.push_str(&t.text).
RECURSIVE Concat(_)
Concat(translations) ==
  IF translations = <<>> THEN <<>>
  ELSE Head(translations).text \o Concat(Tail(translations))

RECURSIVE Chars(_)
Chars(s) == IF s = <<>> THEN 0 ELSE Len(Head(s)) + Chars(Tail(s))

\* {:<5}: padded with spaces on the right to a width of five.
PadTo5(s) == s \o [i \in 1..(IF Chars(s) < 5 THEN 5 - Chars(s) ELSE 0) |-> " "]

RECURSIVE LanguageLines(_)
LanguageLines(langs) ==
  IF langs = <<>> THEN <<>>
  ELSE <<"  ">> \o PadTo5(Head(langs).language) \o <<" (">> \o Head(langs).name
       \o <<")", "\n">> \o LanguageLines(Tail(langs))

LanguagesOutput(source, target) ==
  <<"DeepL can translate from the following source languages:", "\n">>
  \o LanguageLines(source)
  \o <<"\n">>
  \o <<"DeepL can translate to the following target languages:", "\n">>
  \o LanguageLines(target)

UsageOutput(usage) ==
  <<"Available characters per billing period: ", ToString(usage.character_limit), "\n",
    "Characters already translated in the current billing period: ",
    ToString(usage.character_count), "\n">>

---------------------------------------------------------------------------
(* The runs of the CLI: one action per step of main between two points     *)
(* where the environment has a say (the command line, the credential, the  *)
(* input, each client call).                                               *)

CommandLines ==
  {[subcmd |-> "none"], [subcmd |-> "usage-information"], [subcmd |-> "languages"]}
  \cup [subcmd : {"translate"},
        source_language : {None, Some(Str("EN"))},
        target_language : {None, Some(Str("DE")), Some(Str("FALSE"))},
        input_file : {None, Some(InputPath), Some(MissingPath)},
        output_file : {None, Some(OutputPath), Some(MissingPath)},
        preserve_formatting : BOOLEAN,
        formality_more : BOOLEAN,
        formality_less : BOOLEAN]

\* DEEPL_API_KEY: unset, empty, a credential the service knows, one it does not.
EnvKeys == {None, Some(<<>>), Some(<<"a">>), Some(<<"w">>)}

\* Standard input read to its end: two lines, or bytes that are no UTF-8.
Stdins == {Ok(<<"ja", "\n", "nein">>), IO(InvalidUtf8)}

InitCli ==
  /\ api_key = None
  /\ pc = "ready"
  /\ store = EmptyStore
  /\ used_ids = {}
  /\ op = "new"
  /\ args = [op |-> "new"]
  /\ request = None
  /\ response = None
  /\ served = "none"
  /\ result = None
  /\ decoded = FALSE
  /\ hosts = {}
  /\ wire = <<>>
  /\ held = None
  /\ main_pc = "start"
  /\ cmdline \in CommandLines
  /\ env_key \in EnvKeys
  /\ stdin \in Stdins
  /\ files = [p \in {InputPath} |-> Str("nein")]
  /\ input = <<>>
  /\ source_langs = <<>>
  /\ stdout = <<>>
  /\ stderr = <<>>
  /\ exit_code = None

\* The process ends: what it still writes, and its exit code.
Exit(x) ==
  /\ main_pc' = "exited"
  /\ exit_code' = Some(x.code)
  /\ stdout' = stdout \o x.stdout
  /\ stderr' = stderr \o x.stderr

\* Falling off the end of main.
Success(out) == [code |-> 0, stdout |-> out, stderr |-> <<>>]

\* Opts::parse()
main_parse ==
  /\ main_pc = "start"
  /\ IF ParseArguments(cmdline).some
     THEN /\ main_pc' = "parsed"
          /\ UNCHANGED <<stdout, stderr, exit_code>>
     ELSE Exit([code |-> 2, stdout |-> <<>>, stderr |-> ClapError(cmdline)])
  /\ UNCHANGED <<cmdline, env_key, stdin, files, input, source_langs>>
  /\ UNCHANGED lib_vars

\* The credential from the environment, DeepL::new and the dispatch on the
\* subcommand.
main_key ==
  /\ main_pc = "parsed"
  /\ LET key == ReadKey(env_key)
         subcmd == ParseArguments(cmdline).v.subcmd
     IN  IF key.some
         THEN /\ api_key' = key.v
              /\ main_pc' = (CASE subcmd = "Translate" -> "translate"
                               [] subcmd = "UsageInformation" -> "usage_information"
                               [] subcmd = "Languages" -> "languages")
              /\ UNCHANGED <<stdout, stderr, exit_code>>
         ELSE /\ Exit([code |-> 1, stdout |-> <<>>, stderr |-> MissingKeyMessage])
              /\ UNCHANGED api_key
  /\ UNCHANGED <<cmdline, env_key, stdin, files, input, source_langs>>
  /\ UNCHANGED call_vars

\* usage_information of the CLI, and main's handling of its result.
cli_usage_information(env) ==
  /\ main_pc = "usage_information"
  /\ Exchange([op |-> "usage_information"], env)
  /\ IF result'.kind = "Ok"
     THEN Exit(Success(UsageOutput(result'.value)))
     ELSE Exit(ErrorExit(result'))
  /\ UNCHANGED <<cmdline, env_key, stdin, files, input, source_langs>>

\* languages of the CLI, up to `let source_langs = deepl.source_languages()?`.
cli_source_languages(env) ==
  /\ main_pc = "languages"
  /\ Exchange([op |-> "source_languages"], env)
  /\ IF result'.kind = "Ok"
     THEN /\ source_langs' = result'.value
          /\ main_pc' = "languages_target"
          /\ UNCHANGED <<stdout, stderr, exit_code>>
     ELSE /\ Exit(ErrorExit(result'))
          /\ UNCHANGED source_langs
  /\ UNCHANGED <<cmdline, env_key, stdin, files, input>>

\* languages of the CLI, from `let target_langs = deepl.target_languages()?`.
cli_target_languages(env) ==
  /\ main_pc = "languages_target"
  /\ Exchange([op |-> "target_languages"], env)
  /\ IF result'.kind = "Ok"
     THEN Exit(Success(LanguagesOutput(source_langs, result'.value)))
     ELSE Exit(ErrorExit(result'))
  /\ UNCHANGED <<cmdline, env_key, stdin, files, input, source_langs>>

\* translate of the CLI, up to the input being read.
cli_translate_read ==
  /\ main_pc = "translate"
  /\ LET read == ReadInput(ParseArguments(cmdline).v.t, stdin, files)
     IN  IF read.kind = "Ok"
         THEN /\ input' = read.value
              /\ main_pc' = "translate_call"
              /\ UNCHANGED <<stdout, stderr, exit_code>>
         ELSE /\ Exit(ErrorExit(read))
              /\ UNCHANGED input
  /\ UNCHANGED <<cmdline, env_key, stdin, files, source_langs>>
  /\ UNCHANGED lib_vars

\* translate of the CLI, from the call of deepl.translate to the output.
cli_translate(env) ==
  /\ main_pc = "translate_call"
  /\ LET t == ParseArguments(cmdline).v.t
     IN  /\ Exchange([op |-> "translate",
                      options |-> Some(CliTranslationOptions(t)),
                      text_list |-> CliTexts(t, input)], env)
         /\ IF result'.kind # "Ok"
            THEN Exit(ErrorExit(result')) /\ UNCHANGED files
            ELSE LET output == Concat(result'.value)
                 IN  IF ~t.output_file.some
                       THEN Exit(Success(output \o <<"\n">>)) /\ UNCHANGED files
                     ELSE IF CanWrite(t.output_file.v)
                       THEN /\ files' = Written(files, t.output_file.v, output)
                            /\ Exit(Success(<<>>))
                     ELSE Exit(ErrorExit(IO(NoSuchFile))) /\ UNCHANGED files
  /\ UNCHANGED <<cmdline, env_key, stdin, input, source_langs>>

\* Every command line, credential and input, against the service, the
\* failures of the transport and SomeReplies.
NextCli ==
  \/ main_parse
  \/ main_key
  \/ cli_usage_information("some")
  \/ cli_source_languages("some")
  \/ cli_target_languages("some")
  \/ cli_translate_read
  \/ cli_translate("some")

SpecCli == InitCli /\ [][NextCli]_vars

---------------------------------------------------------------------------
(* Properties of the runs of the CLI, checked under SpecCli.               *)

Exited == main_pc = "exited"

C13_NoCredential == env_key = None \/ (env_key.some /\ env_key.v = <<>>)

\* C13: with DEEPL_API_KEY unset or empty, a run of any of the three
\* subcommands (a command line that parses) exits with code 1, with the
\* fixed message about the missing credential on standard error and nothing
\* on standard output; no client is built and no request is sent at any
\* point of such a run, whatever the command line.
C13_MissingCredential ==
  C13_NoCredential =>
    /\ wire = <<>>
    /\ api_key = None
    /\ op = "new"
    /\ main_pc \in {"start", "parsed", "exited"}
    /\ (Exited /\ cmdline.subcmd \in {"usage-information", "languages"}) =>
         exit_code = Some(1)
    /\ (Exited /\ cmdline.subcmd = "translate" /\ cmdline.target_language.some) =>
         exit_code = Some(1)
    /\ (Exited /\ exit_code = Some(1)) =>
         /\ stderr = <<"Error: ",
                       "no DEEPL_API_KEY found. Please provide your API key in this environment variable.",
                       "\n">>
         /\ stdout = <<>>
         /\ files = [p \in {InputPath} |-> <<"nein">>]

\* translate with an output file, the variable set and empty.
C13_Witness ==
  /\ Exited
  /\ cmdline.subcmd = "translate" /\ cmdline.output_file = Some(OutputPath)
  /\ env_key = Some(<<>>)
  /\ exit_code = Some(1)
  /\ wire = <<>>


C14_Parses ==
  \/ cmdline.subcmd \in {"usage-information", "languages"}
  \/ cmdline.subcmd = "translate" /\ cmdline.target_language.some

C14_HasCredential == env_key.some /\ env_key.v # <<>>

C14_InputReadable ==
  IF cmdline.input_file.some THEN cmdline.input_file.v = InputPath ELSE "value" \in DOMAIN stdin

C14_OutputWritable == cmdline.output_file.some => cmdline.output_file.v = OutputPath

\* The client calls a subcommand makes when none of them fails.
C14_Calls ==
  CASE cmdline.subcmd = "usage-information" -> <<"usage_information">>
    [] cmdline.subcmd = "languages" -> <<"source_languages", "target_languages">>
    [] cmdline.subcmd = "translate" -> <<"translate">>

\* The subcommand ran to its end and nothing failed on the way.
C14_CompletedWithoutError ==
  /\ C14_Parses
  /\ C14_HasCredential
  /\ cmdline.subcmd = "translate" => C14_InputReadable /\ C14_OutputWritable
  /\ Len(wire) = Len(C14_Calls)
  /\ op = C14_Calls[Len(C14_Calls)]
  /\ result.kind = "Ok"

\* The message of the failure a run ended with.
C14_Message ==
  IF ~C14_HasCredential
    THEN <<"no DEEPL_API_KEY found. Please provide your API key in this environment variable.">>
  ELSE IF cmdline.subcmd = "translate" /\ ~C14_InputReadable
    THEN IF cmdline.input_file.some THEN <<"No such file or directory (os error 2)">>
         ELSE <<"stream did not contain valid UTF-8">>
  ELSE IF result.kind = "AuthorizationError"
    THEN <<"Authorization failed, is your API key correct?">>
  ELSE IF result.kind = "NotFoundError" THEN <<"The requested resource was not found.">>
  ELSE IF result.kind = "DeserializationError"
    THEN <<"An error occurred while deserializing the response data.">>
  ELSE IF result.kind = "ServerError"
    THEN <<"An error occurred while communicating with the DeepL server: '">>
         \o result.message \o <<"'.">>
  ELSE IF result.kind = "Transport" THEN <<response.err>>
  ELSE <<"No such file or directory (os error 2)">>

\* C14: a run ends with exit code 0, 1 or 2: 2 exactly when the command
\* line does not parse, and then no credential was taken, no client built and
\* no request sent; 0 exactly when the subcommand ran to its end without
\* error; 1 in every other case (missing credential, input that cannot be
\* read, a client call that failed with any error kind, output that cannot
\* be written), with `Error: ` and the message of that failure as the one
\* line on standard error.
C14_ExitCodes ==
  Exited =>
    /\ exit_code \in {Some(0), Some(1), Some(2)}
    /\ exit_code = Some(2) <=> ~C14_Parses
    /\ exit_code = Some(2) =>
         /\ api_key = None /\ wire = <<>> /\ op = "new"
         /\ stdout = <<>> /\ stderr # <<>>
    /\ exit_code = Some(0) <=> C14_CompletedWithoutError
    /\ exit_code = Some(0) => stderr = <<>>
    /\ exit_code = Some(1) <=> (C14_Parses /\ ~C14_CompletedWithoutError)
    /\ exit_code = Some(1) =>
         /\ stderr = <<"Error: ">> \o C14_Message \o <<"\n">>
         /\ Len(SelectSeq(stderr, LAMBDA c : c = "\n")) = 1

\* The invalid target language of test_translate: exit code 1 with the
\* service's message.
C14_Witness ==
  /\ Exited
  /\ cmdline.subcmd = "translate" /\ cmdline.target_language = Some(<<"FALSE">>)
  /\ exit_code = Some(1)
  /\ stdout = <<>>
  /\ stderr = <<"Error: ",
                "An error occurred while communicating with the DeepL server: '",
                "Value for 'target_lang' not supported.", ": ", "'.", "\n">>


\* The translate subcommand got as far as calling the client.
C15_Called == cmdline.subcmd = "translate" /\ main_pc = "exited" /\ op = "translate"

\* The texts of the results, one after the other.
C15_Texts(r) ==
  CASE Len(r) = 0 -> <<>>
    [] Len(r) = 1 -> r[1].text
    [] Len(r) = 2 -> r[1].text \o r[2].text

\* C15: the translate subcommand takes its input from the file when
\* --input-file is given and from standard input otherwise, and calls
\* translate once, with one request whose only text entry is that whole
\* input, line breaks included.  When the call succeeds it writes the texts
\* returned, one after the other, to the output file with nothing added when
\* --output-file is given, and to standard output with one line break added
\* otherwise.  When the input cannot be read no request is sent.
C15_TranslateInputOutput ==
  /\ C15_Called =>
       /\ Len(wire) = 1
       /\ args.text_list.texts =
            (IF cmdline.input_file.some THEN << <<"nein">> >> ELSE << <<"ja", "\n", "nein">> >>)
       /\ Values(request.form.v, "text") = args.text_list.texts
       /\ input = args.text_list.texts[1]
  /\ (C15_Called /\ result.kind = "Ok" /\ ~cmdline.output_file.some) =>
       /\ exit_code = Some(0)
       /\ stdout = C15_Texts(result.value) \o <<"\n">>
       /\ DOMAIN files = {InputPath}
  /\ (C15_Called /\ result.kind = "Ok" /\ cmdline.output_file = Some(OutputPath)) =>
       /\ exit_code = Some(0)
       /\ stdout = <<>>
       /\ files[OutputPath] = C15_Texts(result.value)
       /\ files[InputPath] = <<"nein">>
  /\ (main_pc = "exited" /\ cmdline.subcmd = "translate" /\ C14_Parses
        /\ C14_HasCredential /\ ~C14_InputReadable) =>
       /\ wire = <<>>
       /\ op = "new"
       /\ exit_code = Some(1)

\* Two lines on standard input, sent as one block; two translations come
\* back and are written to the output file one after the other.
C15_Witness ==
  /\ C15_Called
  /\ ~cmdline.input_file.some
  /\ cmdline.output_file = Some(OutputPath)
  /\ Values(request.form.v, "text") = << <<"ja", "\n", "nein">> >>
  /\ response = Reply(200, TwoTranslations)
  /\ files[OutputPath] = <<"yes", "no">>

---------------------------------------------------------------------------
(* Properties of every call against every answer, checked under            *)
(* SpecAnyResponse.                                                        *)

C16_ResultKinds ==
  {"Ok", "AuthorizationError", "NotFoundError", "ServerError", "DeserializationError",
   "Transport"}

\* C16: every call of a public operation returns: a success value or an
\* error of one of the error kinds, for every outcome of the exchange.  No
\* operation hands http_request parameters with a method other than GET,
\* PATCH, POST or PUT: a request with another method (the DELETE of
\* delete_glossary) has no parameters, query parameters go with GET only and
\* form parameters with POST only, so the unreachable! arm is never taken.
C16_NoPanic ==
  pc = "returned" =>
    /\ request # Panic
    /\ result # Panic
    /\ result.kind \in C16_ResultKinds
    /\ Len(wire) = 1
    /\ request.method \in {"GET", "POST", "DELETE"}
    /\ request.query.some => request.method = "GET"
    /\ request.form.some => request.method \in {"PATCH", "POST", "PUT"}
    /\ request.method \notin {"GET", "PATCH", "POST", "PUT"} =>
         (request.query = None /\ request.form = None)
    /\ op = "delete_glossary" =>
         (request.method = "DELETE" /\ request.query = None /\ request.form = None)

\* delete_glossary for a glossary the service does not have, answered with a
\* body that is no JSON: NotFoundError.
C16_Witness ==
  /\ pc = "returned" /\ op = "delete_glossary"
  /\ request.method = "DELETE"
  /\ response = Reply(404, NotJson)
  /\ result = NotFoundError

---------------------------------------------------------------------------
(* Properties of the request of the translate subcommand, checked under    *)
(* SpecCli.                                                                *)

C17_Names(q) == {q[i][1] : i \in 1..Len(q)}

\* C17: the request of the translate subcommand has a formality parameter
\* only if --formality-more or --formality-less is set, and never more than
\* one: its value is "more" when --formality-more is set, with
\* --formality-less or without it, and "less" when --formality-less alone is
\* set; preserve_formatting is sent, as "1", only with
\* --preserve-formatting; and with none of the three flags the request has
\* no option parameter at all.
C17_FormalityFlags ==
  (cmdline.subcmd = "translate" /\ op = "translate") =>
    LET q == request.form.v
    IN  /\ Values(q, "formality") =
             (IF cmdline.formality_more THEN << <<"more">> >>
              ELSE IF cmdline.formality_less THEN << <<"less">> >>
              ELSE <<>>)
        /\ Values(q, "preserve_formatting") =
             (IF cmdline.preserve_formatting THEN << <<"1">> >> ELSE <<>>)
        /\ Values(q, "split_sentences") = <<>>
        /\ Values(q, "glossary_id") = <<>>
        /\ (~cmdline.formality_more /\ ~cmdline.formality_less
              /\ ~cmdline.preserve_formatting) =>
             /\ C17_Names(q) \subseteq {"target_lang", "source_lang", "text"}
             /\ request = TranslateRequest(api_key, None, args.text_list)

\* Both flags set: the request says more, once.
C17_Witness ==
  /\ cmdline.subcmd = "translate" /\ op = "translate"
  /\ cmdline.formality_more /\ cmdline.formality_less /\ ~cmdline.preserve_formatting
  /\ Values(request.form.v, "formality") = << <<"more">> >>
  /\ args.options.v.formality = Some("More")

---------------------------------------------------------------------------
(* Properties of a chain of glossary calls, checked under Spec.            *)

\* The caller holds a glossary and has not called delete_glossary for it.
C18_Holding == held.some /\ held.live = "yes"

\* C18: while the caller holds a created glossary and has not called
\* delete_glossary for it, the glossary exists on the service as created,
\* whatever the calls made since and however they ended: a call that is not
\* delete_glossary, failed or not, sends its own request alone, and no
\* DELETE.
C18_NoCompensation ==
  /\ C18_Holding =>
       /\ held.v.glossary_id \in DOMAIN store
       /\ store[held.v.glossary_id].name = held.v.name
       /\ store[held.v.glossary_id].entry_count = held.v.entry_count
  /\ (pc = "returned" /\ op # "delete_glossary") =>
       /\ Len(wire) = 1
       /\ \A i \in 1..Len(wire) : wire[i].method # "DELETE"

\* translate with the glossary fails after create_glossary succeeded: the
\* glossary is still there.
C18_Witness ==
  /\ C18_Holding
  /\ pc = "returned" /\ op = "translate"
  /\ args.options.some /\ args.options.v.glossary_id = Some(held.v.glossary_id)
  /\ result.kind = "ServerError"
  /\ held.v.glossary_id \in DOMAIN store

---------------------------------------------------------------------------
(* Properties of what a run of the CLI has written, checked under SpecCli. *)

\* C19: nothing is written to standard output before the last client call
\* of the subcommand has returned Ok: standard output is empty as long as
\* the run has not ended with exit code 0, so it is empty in every run that
\* ends with another code; languages fetches the source languages first and
\* the target languages next, and prints only after both; and when the
\* translate subcommand cannot read its input, or its call fails, the output
\* file is not written.
C19_NoOutputOnFailure ==
  /\ (Exited /\ exit_code # Some(0)) => stdout = <<>>
  /\ stdout # <<>> =>
       /\ Exited /\ exit_code = Some(0)
       /\ Len(wire) = Len(C14_Calls)
       /\ result.kind = "Ok"
  /\ (cmdline.subcmd = "languages" /\ wire # <<>>) =>
       /\ FormValues(wire[1], "type") = << <<"source">> >>
       /\ Len(wire) = 2 => FormValues(wire[2], "type") = << <<"target">> >>
       /\ Len(wire) <= 2
  /\ (cmdline.subcmd = "languages" /\ Exited /\ Len(wire) = 1) =>
       (exit_code = Some(1) /\ stdout = <<>>)
  /\ (Exited /\ exit_code # Some(0)) => DOMAIN files = {InputPath}
  /\ files[InputPath] = <<"nein">>

\* languages: the source languages arrive, the fetch of the target
\* languages fails.
C19_Witness ==
  /\ Exited /\ cmdline.subcmd = "languages"
  /\ Len(wire) = 2
  /\ source_langs # <<>>
  /\ result.kind = "Transport"
  /\ exit_code = Some(1)
  /\ stdout = <<>>

============================================================================
